---- MODULE Spec2Model ----
(***************************************************************************)
(* Model of robomimic/scripts/conversion/convert_r2d2.py: the batch driver *)
(* (__main__), convert_dataset and remove_timesteps, over an abstract HDF5 *)
(* file system.                                                            *)
(*                                                                         *)
(* A store (h5py.File) is a function from paths (tuples of link names) to  *)
(* nodes.  A dataset node carries its numpy shape, its rows along axis 0   *)
(* (each row is the flattened content of that row, a tuple of integers)    *)
(* and its compression filter.  An image row is abstracted to the three    *)
(* channel values of one pixel, the shape still being [T, H, W, 3].        *)
(* Euler angles are counted in quarter turns so that the rotation matrix   *)
(* has integer entries.                                                    *)
(***************************************************************************)
EXTENDS Integers, Sequences, FiniteSets, TLC

\* ---------------------------------------------------------------- bounds
MaxLen == 3
MaxFiles == 2
MaxRuns == 2

\* ------------------------------------------------------------- constants
DefaultImsize == 128
ImSizes == {84, DefaultImsize}

\* ---------------------------------------------------------- generic help
SetToSeqs(S) == {s \in [1..Cardinality(S) -> S] : \A i, j \in 1..Cardinality(S) : i # j => s[i] # s[j]}

Range(s) == {s[i] : i \in 1..Len(s)}

Reverse(s) == [i \in 1..Len(s) |-> s[Len(s) + 1 - i]]

FromPairs(S) == [p \in {x[1] : x \in S} |-> (CHOOSE x \in S : x[1] = p)[2]]

IsPrefix(g, p) == Len(g) <= Len(p) /\ SubSeq(p, 1, Len(g)) = g

\* ------------------------------------------------------------ string model
\* Python compares str values code point by code point; the identifiers of
\* the model are digit strings, given here by their digits.
CamIds == {"17", "24", "9"}

StrDigits(s) ==
    CASE s = "17" -> <<1, 7>>
      [] s = "24" -> <<2, 4>>
      [] s = "9" -> <<9>>

RECURSIVE LexLess(_, _)
LexLess(a, b) ==
    IF b = <<>> THEN FALSE
    ELSE IF a = <<>> THEN TRUE
    ELSE IF Head(a) # Head(b) THEN Head(a) < Head(b)
    ELSE LexLess(Tail(a), Tail(b))

StrLess(s, t) == LexLess(StrDigits(s), StrDigits(t))

\* sorted(ids): the ascending arrangement of a list of distinct strings
RECURSIVE SortedSet(_)
SortedSet(S) ==
    IF S = {} THEN <<>>
    ELSE LET m == CHOOSE x \in S : \A y \in S \ {x} : StrLess(x, y)
         IN <<m>> \o SortedSet(S \ {m})

Sorted(ids) == SortedSet(Range(ids))

\* "varied_camera_{}_image".format(i)
VariedCamName(i) ==
    CASE i = 1 -> "varied_camera_1_image"
      [] i = 2 -> "varied_camera_2_image"
      [] i = 3 -> "varied_camera_3_image"

HandCamName == "hand_camera_image"

\* "{}_left".format(id)
LeftKey(id) == <<id, "left">>

\* os.path.join(os.path.dirname(path), "trajectory_im{}.h5".format(imsize))
SourceName == "trajectory.h5"

ImName(imsize) ==
    CASE imsize = 84 -> "trajectory_im84.h5"
      [] imsize = 128 -> "trajectory_im128.h5"

\* variant: the output path is the path of the source itself
OutputPathInPlace(path, imsize) == path

OutputPath(path, imsize) == <<path[1], ImName(imsize)>>

\* ------------------------------------------------------------ HDF5 store
GroupNode == [kind |-> "group", shape |-> <<>>, rows |-> <<>>, compression |-> "none"]

TypeNode == [kind |-> "datatype", shape |-> <<>>, rows |-> <<>>, compression |-> "none"]

Dataset(shape, rows, compression) ==
    [kind |-> "dataset", shape |-> shape, rows |-> rows, compression |-> compression]

\* h5py iterates the links of a group in name order
NameOrder ==
    <<"17", "24", "9", "abs_pos", "abs_rot_6d", "abs_rot_euler", "action",
      "camera", "camera_type", "cartesian_position", "cartesian_velocity",
      "controller_info", "episode_meta", "gripper_position",
      "hand_camera_image", "image", "movement_enabled", "observation",
      "rel_pos", "rel_rot_6d", "rel_rot_euler", "robot_state",
      "varied_camera_1_image", "varied_camera_2_image", "varied_camera_3_image">>

NamePos(n) == CHOOSE i \in 1..Len(NameOrder) : NameOrder[i] = n

Has(st, p) == p \in DOMAIN st

ChildNames(st, g) ==
    {p[Len(p)] : p \in {q \in DOMAIN st : Len(q) = Len(g) + 1 /\ IsPrefix(g, q)}}

\* list(g): the names of the links of group g, in iteration order
RECURSIVE InNameOrder(_)
InNameOrder(names) ==
    IF names = {} THEN <<>>
    ELSE LET m == CHOOSE x \in names : \A y \in names : NamePos(x) <= NamePos(y)
         IN <<m>> \o InNameOrder(names \ {m})

Keys(st, g) == InNameOrder(ChildNames(st, g))

\* del g[k]
Del(st, p) == [q \in DOMAIN st \ {p} |-> st[q]]

\* g.create_dataset(k, data=..., compression=...) and g.create_group(k)
Put(st, p, node) == [q \in DOMAIN st \cup {p} |-> IF q = p THEN node ELSE st[q]]

CreateDataset(st, p, shape, rows, compression) == Put(st, p, Dataset(shape, rows, compression))

\* ------------------------------------------------------------ numpy model
\* np.delete(arr, obj, axis=0) on the rows of arr: a keep mask over the rows
\* with the listed positions cleared; a position outside the array is an
\* IndexError.
RECURSIVE MaskSelect(_, _, _)
MaskSelect(rows, keep, i) ==
    IF i > Len(rows) THEN <<>>
    ELSE IF keep[i] THEN <<rows[i]>> \o MaskSelect(rows, keep, i + 1)
    ELSE MaskSelect(rows, keep, i + 1)

DeleteInBounds(rows, obj) == \A r \in obj : r < Len(rows)

\* variant: the positions to delete are taken as 1-based
np_delete_one_based(rows, obj) ==
    LET keep == [i \in 1..Len(rows) |-> i \notin obj]
    IN MaskSelect(rows, keep, 1)

np_delete(rows, obj) ==
    LET keep == [i \in 1..Len(rows) |-> (i - 1) \notin obj]
    IN MaskSelect(rows, keep, 1)

\* variant: the indices where movement is enabled
np_where_true(rows) == {i \in 0..(Len(rows) - 1) : rows[i + 1] # <<0>>}

\* np.where(movement_enabled == False)[0]
np_where_false(rows) == {i \in 0..(Len(rows) - 1) : rows[i + 1] = <<0>>}

\* .astype(np.uint8) of one row
AsUint8(row) == [j \in 1..Len(row) |-> row[j] % 256]

\* np.zeros((imsize, imsize, 3)) and a decoded frame: shape and pixel
Zeros(imsize) == [shape |-> <<imsize, imsize, 3>>, px |-> <<0, 0, 0>>]

\* im[:, :, ::-1]
BgrToRgb(im) == [shape |-> im.shape, px |-> Reverse(im.px)]

\* ------------------------------------------------- rotation (pytorch3d)
Cos4(q) == CASE q % 4 = 0 -> 1 [] q % 4 = 1 -> 0 [] q % 4 = 2 -> -1 [] q % 4 = 3 -> 0

Sin4(q) == CASE q % 4 = 0 -> 0 [] q % 4 = 1 -> 1 [] q % 4 = 2 -> 0 [] q % 4 = 3 -> -1

AxisX(q) == <<<<1, 0, 0>>, <<0, Cos4(q), -Sin4(q)>>, <<0, Sin4(q), Cos4(q)>>>>

AxisY(q) == <<<<Cos4(q), 0, Sin4(q)>>, <<0, 1, 0>>, <<-Sin4(q), 0, Cos4(q)>>>>

AxisZ(q) == <<<<Cos4(q), -Sin4(q), 0>>, <<Sin4(q), Cos4(q), 0>>, <<0, 0, 1>>>>

MatMul(a, b) ==
    [i \in 1..3 |-> [j \in 1..3 |-> a[i][1] * b[1][j] + a[i][2] * b[2][j] + a[i][3] * b[3][j]]]

\* pt.euler_angles_to_matrix(rot, convention="XYZ")
euler_angles_to_matrix(e) == MatMul(MatMul(AxisX(e[1]), AxisY(e[2])), AxisZ(e[3]))

\* pt.matrix_to_rotation_6d(m): the first two rows of the matrix
matrix_to_rotation_6d(m) == m[1] \o m[2]

\* ------------------------------------------------------ camera provider
\* camera_reader.read_cameras(...)["image"][key]: the BGR frame of a camera
Frame(id, index, imsize) ==
    [shape |-> <<imsize, imsize, 3>>, px |-> <<Head(StrDigits(id)), 10 + index, 200>>]

\* camera_type_to_string_dict of r2d2.camera_utils.info
CameraTypeString(code) ==
    CASE code = 0 -> "hand_camera"
      [] code = 1 -> "varied_camera"
      [] code = 2 -> "fixed_camera"
      [] OTHER -> "KeyError"

\* ------------------------------------------------------ remove_timesteps
Ok(st) == [st |-> st, err |-> "none"]

Raise(st, e) == [st |-> st, err |-> e]

\* variant: no test of the leading dimension before the rows are deleted
PruneDatasetNoSkip(st, p, total_timesteps, timesteps_to_remove) ==
    LET n == st[p]
    IN IF n.shape = <<>> THEN Raise(st, "IndexError")
       ELSE IF ~DeleteInBounds(n.rows, timesteps_to_remove) THEN Raise(st, "IndexError")
       ELSE LET new_dataset == np_delete(n.rows, timesteps_to_remove)
            IN Ok(CreateDataset(Del(st, p), p, <<Len(new_dataset)>> \o Tail(n.shape),
                                new_dataset, "none"))

\* one dataset visited by remove_timesteps_for_group: skipped when its leading
\* dimension is not total_timesteps, else deleted and created again from
\* np.delete(g[k], timesteps_to_remove, axis=0) with create_dataset's defaults
PruneDataset(st, p, total_timesteps, timesteps_to_remove) ==
    LET n == st[p]
    IN IF n.shape = <<>> THEN Raise(st, "IndexError")
       ELSE IF n.shape[1] # total_timesteps THEN Ok(st)
       ELSE IF ~DeleteInBounds(n.rows, timesteps_to_remove) THEN Raise(st, "IndexError")
       ELSE LET new_dataset == np_delete(n.rows, timesteps_to_remove)
            IN Ok(CreateDataset(Del(st, p), p, <<Len(new_dataset)>> \o Tail(n.shape),
                                new_dataset, "none"))

\* the loop "for k in g" of remove_timesteps_for_group over the keys left
RECURSIVE remove_timesteps_for_group(_, _, _, _, _)
remove_timesteps_for_group(st, g, keys, total_timesteps, timesteps_to_remove) ==
    IF keys = <<>> THEN Ok(st)
    ELSE LET p == Append(g, Head(keys))
             r == IF st[p].kind = "dataset"
                  THEN PruneDataset(st, p, total_timesteps, timesteps_to_remove)
                  ELSE IF st[p].kind = "group"
                  THEN remove_timesteps_for_group(st, p, Keys(st, p), total_timesteps,
                                                  timesteps_to_remove)
                  ELSE Raise(st, "NotImplementedError")
         IN IF r.err # "none" THEN r
            ELSE remove_timesteps_for_group(r.st, g, Tail(keys), total_timesteps,
                                            timesteps_to_remove)

\* the loop "for k in f" of remove_timesteps: f[k] is walked as a group
RECURSIVE remove_timesteps_top(_, _, _, _)
remove_timesteps_top(st, keys, total_timesteps, timesteps_to_remove) ==
    IF keys = <<>> THEN Ok(st)
    ELSE LET p == <<Head(keys)>>
             r == IF st[p].kind = "group"
                  THEN remove_timesteps_for_group(st, p, Keys(st, p), total_timesteps,
                                                  timesteps_to_remove)
                  ELSE Raise(st, "TypeError")
         IN IF r.err # "none" THEN r
            ELSE remove_timesteps_top(r.st, Tail(keys), total_timesteps, timesteps_to_remove)

remove_timesteps(st, timesteps_to_remove) ==
    LET total_timesteps == st[<<"action", "cartesian_position">>].shape[1]
    IN remove_timesteps_top(st, Keys(st, <<>>), total_timesteps, timesteps_to_remove)

\* ------------------------------------------------ convert_dataset, parts
ActionGrp == <<"action">>

ImageGrp == <<"observation", "camera", "image">>

\* lines 39-40: create observation/camera/image when camera is missing
EnsureImageGroup(st) ==
    IF Has(st, <<"observation", "camera">>) THEN st
    ELSE Put(Put(st, <<"observation", "camera">>, GroupNode), ImageGrp, GroupNode)

\* lines 57-68: the classification loop over the keys in enumeration order
RECURSIVE ClassifyLoop(_, _, _)
ClassifyLoop(st, order, acc) ==
    IF order = <<>> THEN acc
    ELSE LET k == Head(order)
             cam_type == CameraTypeString(st[<<"observation", "camera_type", k>>].rows[1][1])
         IN IF cam_type = "KeyError" THEN [acc EXCEPT !.err = "KeyError"]
            ELSE LET a1 == [acc EXCEPT !.CAM_ID_TO_TYPE = Put(@, k, cam_type)]
                 IN IF cam_type = "hand_camera"
                    THEN ClassifyLoop(st, Tail(order), [a1 EXCEPT !.hand = Append(@, k)])
                    ELSE IF cam_type = "varied_camera"
                    THEN ClassifyLoop(st, Tail(order), [a1 EXCEPT !.varied = Append(@, k)])
                    ELSE [a1 EXCEPT !.err = "ValueError"]

\* variant: the error of the classification is swallowed
ClassifyNoRaise(st, order) ==
    [ClassifyLoop(st, order, [CAM_ID_TO_TYPE |-> <<>>, hand |-> <<>>, varied |-> <<>>,
                              err |-> "none"]) EXCEPT !.err = "none"]

Classify(st, order) ==
    ClassifyLoop(st, order, [CAM_ID_TO_TYPE |-> <<>>, hand |-> <<>>, varied |-> <<>>,
                             err |-> "none"])

\* variant: the identifiers are left in the order of enumeration
SortIdsUnsorted(ids) == ids

\* lines 71-72
SortIds(ids) == Sorted(ids)

\* lines 74-81: CAM_NAME_TO_KEY_MAPPING from the sorted identifier lists
CamNameToKey(hand_cam_ids, varied_cam_ids) ==
    [n \in {HandCamName} \cup {VariedCamName(i) : i \in 1..Len(varied_cam_ids)} |->
        IF n = HandCamName THEN LeftKey(hand_cam_ids[1])
        ELSE LeftKey(varied_cam_ids[CHOOSE i \in 1..Len(varied_cam_ids) : VariedCamName(i) = n])]

\* variant: no zero frame in place of an unreadable one
SlotFrameNoFallback(camera_obs_ok, key, index, imsize) == Frame(key[1], index, imsize)

\* lines 95-100: the frame of one slot at one index
SlotFrame(camera_obs_ok, key, index, imsize) ==
    IF ~camera_obs_ok THEN Zeros(imsize) ELSE Frame(key[1], index, imsize)

\* lines 107-111: stack the frames of each slot and write them, gzip-compressed
ImageCompression == "gzip"

StackShape(frames) == IF frames = <<>> THEN <<0>> ELSE <<Len(frames)>> \o frames[1].shape

RECURSIVE WriteImageLoop(_, _, _)
WriteImageLoop(st, names, data) ==
    IF names = <<>> THEN st
    ELSE LET cam_name == Head(names)
             frames == data[cam_name]
             rows == [i \in 1..Len(frames) |-> AsUint8(frames[i].px)]
             p == Append(ImageGrp, cam_name)
             s1 == IF Has(st, p) THEN Del(st, p) ELSE st
         IN WriteImageLoop(CreateDataset(s1, p, StackShape(frames), rows, ImageCompression),
                           Tail(names), data)

\* lines 115-138 for one input key
Prefix(in_ac_key) == IF in_ac_key = "cartesian_position" THEN "abs_" ELSE "rel_"

DerivedName(prefix, what) ==
    CASE prefix = "abs_" /\ what = "pos" -> "abs_pos"
      [] prefix = "abs_" /\ what = "rot_euler" -> "abs_rot_euler"
      [] prefix = "abs_" /\ what = "rot_6d" -> "abs_rot_6d"
      [] prefix = "rel_" /\ what = "pos" -> "rel_pos"
      [] prefix = "rel_" /\ what = "rot_euler" -> "rel_rot_euler"
      [] prefix = "rel_" /\ what = "rot_6d" -> "rel_rot_6d"

Replace(st, p, shape, rows) ==
    CreateDataset(IF Has(st, p) THEN Del(st, p) ELSE st, p, shape, rows, "none")

ExtractOne(st, in_ac_key) ==
    LET in_action == st[Append(ActionGrp, in_ac_key)].rows
        N == Len(in_action)
        in_pos == [i \in 1..N |-> SubSeq(in_action[i], 1, 3)]
        in_rot == [i \in 1..N |-> SubSeq(in_action[i], 4, 6)]
        rot_6d == [i \in 1..N |-> matrix_to_rotation_6d(euler_angles_to_matrix(in_rot[i]))]
        prefix == Prefix(in_ac_key)
        s1 == Replace(st, Append(ActionGrp, DerivedName(prefix, "pos")), <<N, 3>>, in_pos)
        s2 == Replace(s1, Append(ActionGrp, DerivedName(prefix, "rot_euler")), <<N, 3>>, in_rot)
    IN Replace(s2, Append(ActionGrp, DerivedName(prefix, "rot_6d")), <<N, 6>>, rot_6d)

ExtractActions(st) == ExtractOne(ExtractOne(st, "cartesian_position"), "cartesian_velocity")

\* variant: the test is for 0-dimensional datasets
NeedsBatchingZeroDim(node) == node.kind = "dataset" /\ Len(node.shape) = 0

\* lines 141-145: np.reshape(values, (-1, 1)) of the 1-D datasets of the group
NeedsBatching(node) == node.kind = "dataset" /\ Len(node.shape) = 1

RECURSIVE BatchLoop(_, _)
BatchLoop(st, keys) ==
    IF keys = <<>> THEN st
    ELSE LET p == Append(ActionGrp, Head(keys))
         IN IF NeedsBatching(st[p])
            THEN BatchLoop(CreateDataset(Del(st, p), p, <<Len(st[p].rows), 1>>, st[p].rows, "none"),
                           Tail(keys))
            ELSE BatchLoop(st, Tail(keys))

BatchActions(st) == BatchLoop(st, Keys(st, ActionGrp))

\* ------------------------------------------------------- input trajectories
\* A recorded trajectory.h5: T timesteps, the movement_enabled flags me, the
\* camera_type code of each camera and one dataset or named type of
\* per-episode metadata.
CartRow(i) == <<i, i + 1, i + 2, i % 4, (i + 1) % 4, (i + 2) % 4>>

MetaVariants == {"none", "one", "long", "scalar", "datatype"}

MetaNodes(T, meta) ==
    CASE meta = "none" -> {}
      [] meta = "one" -> {<<<<"observation", "episode_meta">>, Dataset(<<1>>, <<<<7>>>>, "none")>>}
      [] meta = "long" -> {<<<<"observation", "episode_meta">>,
                             Dataset(<<T + 1>>, [i \in 1..(T + 1) |-> <<7>>], "none")>>}
      [] meta = "scalar" -> {<<<<"observation", "episode_meta">>, Dataset(<<>>, <<<<7>>>>, "none")>>}
      [] meta = "datatype" -> {<<<<"observation", "episode_meta">>, TypeNode>>}

MkStore(T, me, cams, meta) ==
    FromPairs(
        {<<<<"action">>, GroupNode>>,
         <<<<"action", "cartesian_position">>,
           Dataset(<<T, 6>>, [i \in 1..T |-> CartRow(i)], "none")>>,
         <<<<"action", "cartesian_velocity">>,
           Dataset(<<T, 6>>, [i \in 1..T |-> CartRow(i + 1)], "none")>>,
         <<<<"action", "gripper_position">>, Dataset(<<T>>, [i \in 1..T |-> <<i>>], "none")>>,
         <<<<"action", "robot_state">>, GroupNode>>,
         <<<<"action", "robot_state", "gripper_position">>,
           Dataset(<<T>>, [i \in 1..T |-> <<i + 20>>], "none")>>,
         <<<<"observation">>, GroupNode>>,
         <<<<"observation", "camera_type">>, GroupNode>>,
         <<<<"observation", "controller_info">>, GroupNode>>,
         <<<<"observation", "controller_info", "movement_enabled">>,
           Dataset(<<T>>, [i \in 1..T |-> <<me[i]>>], "none")>>}
        \cup {<<<<"observation", "camera_type", id>>,
                Dataset(<<T>>, [i \in 1..T |-> <<cams[id]>>], "none")>> : id \in DOMAIN cams}
        \cup MetaNodes(T, meta))

BaseCams == [id \in CamIds |-> IF id = "17" THEN 0 ELSE 1]

CamConfigs == UNION {[S -> 0..3] : S \in SUBSET CamIds}

Traj(T, me, cams, meta, bad) == [store |-> MkStore(T, me, cams, meta), bad |-> bad]

\* the trajectories that vary the timesteps, the idle flags and the unreadable frames
FrameTrajs ==
    UNION {{Traj(T, me, BaseCams, "none", bad) :
                me \in [1..T -> {0, 1}], bad \in SUBSET (0..(T - 1))} : T \in 1..MaxLen}

\* the trajectories that vary the per-episode metadata
MetaTrajs ==
    UNION {{Traj(T, me, BaseCams, meta, {}) :
                me \in [1..T -> {0, 1}], meta \in MetaVariants \ {"none"}} : T \in 1..MaxLen}

\* the trajectories that vary the cameras
CamTrajs == {Traj(1, me, cams, "none", {}) : me \in [1..1 -> {0, 1}], cams \in CamConfigs}

\* the trajectories of a folder with several recordings
SmallTrajs ==
    {Traj(2, <<1, 0>>, BaseCams, "none", {1}),
     Traj(1, <<1>>, [id \in CamIds |-> IF id = "17" THEN 0 ELSE 2], "none", {}),
     Traj(1, <<0>>, BaseCams, "scalar", {})}

Folders ==
    {<<t>> : t \in FrameTrajs \cup MetaTrajs \cup CamTrajs}
    \cup UNION {[1..n -> SmallTrajs] : n \in 2..MaxFiles}

SourcePath(dir) == <<dir, SourceName>>

\* ------------------------------------------------------------------ state
VARIABLES
    fs,                      \* the files: path -> store
    recordings,              \* recordings/MP4 of each directory: its unreadable frame indices
    args,                    \* the parsed command line
    run,                     \* the number of the run of the script
    datasets,                \* lines 202-206
    d,                       \* position of "for d in tqdm(datasets)"
    pc,                      \* position inside the run
    err,                     \* the exception that ended the run
    open_files,              \* the h5py files open for writing
    f,                       \* convert_dataset: the open output file
    demo_len,
    CAM_ID_TO_TYPE,
    hand_cam_ids,
    varied_cam_ids,
    CAM_NAME_TO_KEY_MAPPING,
    cam_data,
    index,
    timesteps_to_remove

vars == <<fs, recordings, args, run, datasets, d, pc, err, open_files, f, demo_len,
          CAM_ID_TO_TYPE, hand_cam_ids, varied_cam_ids, CAM_NAME_TO_KEY_MAPPING, cam_data,
          index, timesteps_to_remove>>

locals == <<demo_len, CAM_ID_TO_TYPE, hand_cam_ids, varied_cam_ids, CAM_NAME_TO_KEY_MAPPING,
            cam_data, index, timesteps_to_remove>>

NoFile == <<0, "">>

ClearLocals ==
    /\ demo_len' = 0
    /\ CAM_ID_TO_TYPE' = <<>>
    /\ hand_cam_ids' = <<>>
    /\ varied_cam_ids' = <<>>
    /\ CAM_NAME_TO_KEY_MAPPING' = <<>>
    /\ cam_data' = <<>>
    /\ index' = 0
    /\ timesteps_to_remove' = {}

Init ==
    /\ \E folder \in Folders :
        /\ fs = [p \in {SourcePath(i) : i \in 1..Len(folder)} |-> folder[p[1]].store]
        /\ recordings = [i \in 1..Len(folder) |-> folder[i].bad]
        /\ datasets = [i \in 1..Len(folder) |-> SourcePath(i)]
    /\ args \in [imsize : ImSizes, keep_idle_timesteps : BOOLEAN]
    /\ run = 1
    /\ d = 1
    /\ pc = "main"
    /\ err = "none"
    /\ open_files = {}
    /\ f = NoFile
    /\ demo_len = 0
    /\ CAM_ID_TO_TYPE = <<>>
    /\ hand_cam_ids = <<>>
    /\ varied_cam_ids = <<>>
    /\ CAM_NAME_TO_KEY_MAPPING = <<>>
    /\ cam_data = <<>>
    /\ index = 0
    /\ timesteps_to_remove = {}

\* --------------------------------------------------------------- actions
Abort(e) ==
    /\ pc' = "aborted"
    /\ err' = e
    /\ open_files' = {}

\* lines 209-211 and 19-41: the next dataset of the loop enters convert_dataset,
\* which copies it to the output path, opens the copy and prepares the image group
BeginConvert ==
    /\ pc = "main"
    /\ d <= Len(datasets)
    /\ LET path == datasets[d]
           output_path == OutputPath(path, args.imsize)
           copied == Put(fs, output_path, fs[path])
       IN /\ fs' = [copied EXCEPT ![output_path] = EnsureImageGroup(@)]
          /\ f' = output_path
          /\ open_files' = open_files \cup {output_path}
          /\ demo_len' = copied[output_path][<<"action", "cartesian_position">>].shape[1]
    /\ pc' = "classify"
    /\ UNCHANGED <<recordings, args, run, datasets, d, err, CAM_ID_TO_TYPE, hand_cam_ids,
                   varied_cam_ids, CAM_NAME_TO_KEY_MAPPING, cam_data, index,
                   timesteps_to_remove>>

\* lines 57-84: classify the cameras, sort them, name the slots
SetUpCameras ==
    /\ pc = "classify"
    /\ \E order \in SetToSeqs(ChildNames(fs[f], <<"observation", "camera_type">>)) :
        LET c == Classify(fs[f], order)
            hand == SortIds(c.hand)
            varied == SortIds(c.varied)
        IN IF c.err # "none"
           THEN /\ Abort(c.err)
                /\ UNCHANGED <<CAM_ID_TO_TYPE, hand_cam_ids, varied_cam_ids,
                               CAM_NAME_TO_KEY_MAPPING, cam_data>>
           ELSE /\ CAM_ID_TO_TYPE' = c.CAM_ID_TO_TYPE
                /\ hand_cam_ids' = hand
                /\ varied_cam_ids' = varied
                /\ IF hand = <<>>
                   THEN /\ Abort("IndexError")
                        /\ UNCHANGED <<CAM_NAME_TO_KEY_MAPPING, cam_data>>
                   ELSE /\ CAM_NAME_TO_KEY_MAPPING' = CamNameToKey(hand, varied)
                        /\ cam_data' = [n \in DOMAIN CamNameToKey(hand, varied) |-> <<>>]
                        /\ pc' = "frames"
                        /\ UNCHANGED <<err, open_files>>
    /\ UNCHANGED <<fs, recordings, args, run, datasets, d, f, demo_len, index,
                   timesteps_to_remove>>

\* lines 86-105: one iteration of the loop over the timesteps
ReadTimestep ==
    /\ pc = "frames"
    /\ index < demo_len
    /\ LET camera_obs_ok == index \notin recordings[datasets[d][1]]
       IN cam_data' = [n \in DOMAIN cam_data |->
                          Append(cam_data[n],
                                 BgrToRgb(SlotFrame(camera_obs_ok, CAM_NAME_TO_KEY_MAPPING[n],
                                                    index, args.imsize)))]
    /\ index' = index + 1
    /\ UNCHANGED <<fs, recordings, args, run, datasets, d, pc, err, open_files, f, demo_len,
                   CAM_ID_TO_TYPE, hand_cam_ids, varied_cam_ids, CAM_NAME_TO_KEY_MAPPING,
                   timesteps_to_remove>>

\* lines 107-111
WriteImages ==
    /\ pc = "frames"
    /\ index = demo_len
    /\ fs' = [fs EXCEPT ![f] = WriteImageLoop(@, InNameOrder(DOMAIN cam_data), cam_data)]
    /\ pc' = "actions"
    /\ UNCHANGED <<recordings, args, run, datasets, d, err, open_files, f, locals>>

\* lines 113-138
WriteActions ==
    /\ pc = "actions"
    /\ fs' = [fs EXCEPT ![f] = ExtractActions(@)]
    /\ pc' = "batch"
    /\ UNCHANGED <<recordings, args, run, datasets, d, err, open_files, f, locals>>

\* lines 140-145
BatchActionKeys ==
    /\ pc = "batch"
    /\ fs' = [fs EXCEPT ![f] = BatchActions(@)]
    /\ pc' = "post"
    /\ UNCHANGED <<recordings, args, run, datasets, d, err, open_files, f, locals>>

\* lines 147-152
PostProcess ==
    /\ pc = "post"
    /\ LET movement_enabled ==
               fs[f][<<"observation", "controller_info", "movement_enabled">>].rows
           to_remove == np_where_false(movement_enabled)
           r == IF args.keep_idle_timesteps THEN Ok(fs[f])
                ELSE remove_timesteps(fs[f], to_remove)
       IN /\ timesteps_to_remove' = to_remove
          /\ fs' = [fs EXCEPT ![f] = r.st]
          /\ IF r.err # "none" THEN Abort(r.err)
             ELSE /\ pc' = "close"
                  /\ UNCHANGED <<err, open_files>>
    /\ UNCHANGED <<recordings, args, run, datasets, d, f, demo_len, CAM_ID_TO_TYPE,
                   hand_cam_ids, varied_cam_ids, CAM_NAME_TO_KEY_MAPPING, cam_data, index>>

\* variant: the file is not closed on return
CloseFileLeak ==
    /\ pc = "close"
    /\ f' = NoFile
    /\ d' = d + 1
    /\ pc' = "main"
    /\ ClearLocals
    /\ UNCHANGED <<fs, recordings, args, run, datasets, err, open_files>>

\* line 154, and the return to the loop of line 209
CloseFile ==
    /\ pc = "close"
    /\ open_files' = open_files \ {f}
    /\ f' = NoFile
    /\ d' = d + 1
    /\ pc' = "main"
    /\ ClearLocals
    /\ UNCHANGED <<fs, recordings, args, run, datasets, err>>

\* the loop of line 209 is exhausted: the script ends
Finish ==
    /\ pc = "main"
    /\ d > Len(datasets)
    /\ pc' = "exit"
    /\ UNCHANGED <<fs, recordings, args, run, datasets, d, err, open_files, f, locals>>

\* the script is started again over the same folder, at another resolution or
\* the same one
RunAgain ==
    /\ pc \in {"exit", "aborted"}
    /\ run < MaxRuns
    /\ run' = run + 1
    /\ \E imsize \in ImSizes : args' = [args EXCEPT !.imsize = imsize]
    /\ d' = 1
    /\ pc' = "main"
    /\ err' = "none"
    /\ open_files' = {}
    /\ f' = NoFile
    /\ ClearLocals
    /\ UNCHANGED <<fs, recordings, datasets>>

Next ==
    \/ BeginConvert
    \/ SetUpCameras
    \/ ReadTimestep
    \/ WriteImages
    \/ WriteActions
    \/ BatchActionKeys
    \/ PostProcess
    \/ CloseFile
    \/ Finish
    \/ RunAgain

Spec == Init /\ [][Next]_vars

\* ==================================================================== claims
\* Vocabulary of the properties: the source and the output of the conversion
\* in progress, read from the file system.
Converting == pc \in {"classify", "frames", "actions", "batch", "post", "close", "aborted"}

Src == fs[datasets[d]]

Out == fs[OutputPath(datasets[d], args.imsize)]

IsDataset(st, p) == p \in DOMAIN st /\ st[p].kind = "dataset"

Datasets(st) == {p \in DOMAIN st : st[p].kind = "dataset"}

HasLead(st, p, n) == IsDataset(st, p) /\ st[p].shape # <<>> /\ st[p].shape[1] = n

SrcLen == Src[<<"action", "cartesian_position">>].shape[1]

SrcIdle ==
    {i \in 0..(SrcLen - 1) :
        Src[<<"observation", "controller_info", "movement_enabled">>].rows[i + 1][1] = 0}

DerivedPaths ==
    {<<"action", n>> : n \in {"abs_pos", "abs_rot_euler", "abs_rot_6d",
                              "rel_pos", "rel_rot_euler", "rel_rot_6d"}}

SrcCamIds == {p[3] : p \in {q \in DOMAIN Src : Len(q) = 3 /\ IsPrefix(<<"observation", "camera_type">>, q)}}

SrcCamCode(id) == Src[<<"observation", "camera_type", id>>].rows[1][1]

SrcHand == {id \in SrcCamIds : SrcCamCode(id) = 0}

SrcVaried == {id \in SrcCamIds : SrcCamCode(id) = 1}

SlotPaths == {Append(ImageGrp, n) : n \in DOMAIN CAM_NAME_TO_KEY_MAPPING}

\* the k-th (from 0) position of 0..n-1 that is not in R, counted without
\* building the result: position i is kept and exactly k kept positions precede it
KthKept(n, R, k) ==
    CHOOSE i \in 0..(n - 1) :
        i \notin R /\ Cardinality({j \in 0..(i - 1) : j \notin R}) = k

RowsWithout(rows, R) ==
    LET n == Len(rows)
        m == Cardinality({i \in 0..(n - 1) : i \notin R})
    IN [k \in 1..m |-> rows[KthKept(n, R, k - 1) + 1]]

\* C1: when the conversion of a trajectory of length T with d idle timesteps
\* has finished, every array that had leading dimension T in the source, every
\* camera image array and every derived abs_/rel_ action array has leading
\* dimension T if keep_idle_timesteps is set and T - d otherwise.
C1_EpisodeLength ==
    pc = "close" =>
        LET expected == IF args.keep_idle_timesteps THEN SrcLen
                        ELSE SrcLen - Cardinality(SrcIdle)
            episode == {p \in Datasets(Src) : HasLead(Src, p, SrcLen)}
                       \cup SlotPaths \cup DerivedPaths
        IN \A p \in episode : HasLead(Out, p, expected)

C1_Witness ==
    /\ pc = "close"
    /\ ~args.keep_idle_timesteps
    /\ SrcLen = 3
    /\ Cardinality(SrcIdle) = 1
    /\ HasLead(Out, Append(ImageGrp, HandCamName), 2)
    /\ HasLead(Out, <<"action", "abs_rot_6d">>, 2)

\* C2: a call of remove_timesteps on a store whose leaf arrays all have leading
\* dimension T leaves every leaf array, at any depth, with its original rows
\* minus the rows at the removed indices, the others in their original order.
C2_PrunedRows ==
    [][(/\ pc = "post"
        /\ pc' = "close"
        /\ ~args.keep_idle_timesteps
        /\ \A p \in Datasets(fs[f]) : HasLead(fs[f], p, demo_len))
       => /\ DOMAIN fs'[f] = DOMAIN fs[f]
          /\ \A p \in Datasets(fs[f]) :
                /\ IsDataset(fs'[f], p)
                /\ fs'[f][p].rows = RowsWithout(fs[f][p].rows, timesteps_to_remove')
                /\ fs'[f][p].shape =
                       <<demo_len - Cardinality(timesteps_to_remove')>> \o Tail(fs[f][p].shape)]_vars

C2_Witness ==
    /\ pc = "close"
    /\ ~args.keep_idle_timesteps
    /\ demo_len = 3
    /\ timesteps_to_remove = {1}
    /\ \A p \in Datasets(Src) : HasLead(Src, p, 3)
    /\ Out[<<"action", "cartesian_position">>].rows = <<CartRow(1), CartRow(3)>>
    /\ Out[<<"action", "robot_state", "gripper_position">>].rows = <<<<21>>, <<23>>>>

\* C3: an unreadable camera frame never ends the conversion: the timestep
\* loop never raises, every slot gets one frame per timestep, and the frame
\* stored for an unreadable index is all zero with shape [imsize, imsize, 3].
C3_MissingFrames ==
    LET bad == recordings[datasets[d][1]] \cap (0..(demo_len - 1))
        zero == <<0, 0, 0>>
        imshape == <<args.imsize, args.imsize, 3>>
        stored(p) == Out[p].rows
        zeros(p) == Cardinality({i \in 1..Len(stored(p)) : stored(p)[i] = zero})
    IN /\ pc = "frames" =>
            /\ err = "none"
            /\ \A n \in DOMAIN cam_data :
                /\ Len(cam_data[n]) = index
                /\ \A i \in bad : i < index =>
                       cam_data[n][i + 1] = [shape |-> imshape, px |-> zero]
       /\ pc = "aborted" => (cam_data = <<>> \/ index = demo_len)
       /\ (pc \in {"actions", "batch", "post"} \/ (pc = "close" /\ args.keep_idle_timesteps)) =>
            \A p \in SlotPaths :
                /\ IsDataset(Out, p)
                /\ Out[p].shape = <<demo_len>> \o imshape
                /\ Len(stored(p)) = demo_len
                /\ \A i \in bad : stored(p)[i + 1] = zero
       /\ (pc = "close" /\ ~args.keep_idle_timesteps) =>
            \A p \in SlotPaths :
                /\ IsDataset(Out, p)
                /\ Out[p].shape = <<demo_len - Cardinality(timesteps_to_remove)>> \o imshape
                /\ Len(stored(p)) = demo_len - Cardinality(timesteps_to_remove)
                /\ zeros(p) = Cardinality(bad \ timesteps_to_remove)

C3_Witness ==
    /\ pc = "close"
    /\ demo_len = 3
    /\ recordings[datasets[d][1]] = {1}
    /\ args.keep_idle_timesteps
    /\ Out[Append(ImageGrp, HandCamName)].rows[2] = <<0, 0, 0>>
    /\ Out[Append(ImageGrp, HandCamName)].rows[3] # <<0, 0, 0>>

\* C4: with exactly one hand camera and M varied cameras the slot map has M+1
\* entries: hand_camera_image for the hand camera, and varied_camera_i_image
\* for the varied camera that has exactly i-1 varied cameras below it in
\* ascending identifier order, whatever the order of enumeration.
C4_SlotMap ==
    (/\ pc \in {"frames", "actions", "batch", "post", "close"}
     /\ Cardinality(SrcHand) = 1)
    => /\ Cardinality(DOMAIN CAM_NAME_TO_KEY_MAPPING) = Cardinality(SrcVaried) + 1
       /\ \A id \in SrcHand : CAM_NAME_TO_KEY_MAPPING[HandCamName] = <<id, "left">>
       /\ \A id \in SrcVaried :
            LET below == Cardinality({o \in SrcVaried : StrLess(o, id)})
            IN /\ VariedCamName(below + 1) \in DOMAIN CAM_NAME_TO_KEY_MAPPING
               /\ CAM_NAME_TO_KEY_MAPPING[VariedCamName(below + 1)] = <<id, "left">>

C4_Witness ==
    /\ pc = "frames"
    /\ SrcHand = {"9"}
    /\ SrcVaried = {"17", "24"}
    /\ CAM_NAME_TO_KEY_MAPPING[VariedCamName(2)] = <<"24", "left">>

C6_ImagesGzip ==
    pc = "close" =>
        \A p \in Datasets(Out) : IsPrefix(ImageGrp, p) => Out[p].compression = "gzip"

C8_SourceUntouched ==
    [][/\ \A i \in 1..Len(datasets) :
            /\ datasets[i] \in DOMAIN fs'
            /\ fs'[datasets[i]] = fs[datasets[i]]
       /\ \A q \in DOMAIN fs' :
            (q \notin DOMAIN fs \/ fs'[q] # fs[q]) =>
                /\ d \in 1..Len(datasets)
                /\ q = <<datasets[d][1], ImName(args.imsize)>>
                /\ q \notin Range(datasets)]_vars

C8_Witness ==
    /\ run = 2
    /\ pc = "aborted"
    /\ Len(datasets) = 2
    /\ d = 2
    /\ <<1, "trajectory_im84.h5">> \in DOMAIN fs
    /\ <<1, "trajectory_im128.h5">> \in DOMAIN fs
    /\ <<2, "trajectory_im128.h5">> \in DOMAIN fs

\* C9: when a camera of the source has a type other than hand_camera and
\* varied_camera the conversion ends with an error in the classification and
\* the output holds no camera image dataset and no derived action entry;
\* otherwise every camera is in exactly one of the two identifier lists, the
\* one of its type.
C9_CameraTypes ==
    Converting =>
        IF \E id \in SrcCamIds : SrcCamCode(id) \notin {0, 1}
        THEN /\ pc \in {"classify", "aborted"}
             /\ pc = "aborted" => err \in {"ValueError", "KeyError"}
             /\ \A p \in Datasets(Out) : ~IsPrefix(ImageGrp, p) /\ p \notin DerivedPaths
        ELSE pc \in {"frames", "actions", "batch", "post", "close"} =>
                /\ Range(hand_cam_ids) = SrcHand
                /\ Range(varied_cam_ids) = SrcVaried
                /\ Range(hand_cam_ids) \cap Range(varied_cam_ids) = {}
                /\ Range(hand_cam_ids) \cup Range(varied_cam_ids) = SrcCamIds
                /\ DOMAIN CAM_ID_TO_TYPE = SrcCamIds

C9_Witness ==
    /\ pc = "aborted"
    /\ err = "ValueError"
    /\ SrcCamIds = {"17", "24", "9"}
    /\ SrcCamCode("17") = 0
    /\ SrcCamCode("24") = 2
    /\ Datasets(Out) = Datasets(Src)

\* C10: the files of a batch are converted one at a time: at most one store is
\* open for writing, none is open when the conversion of a file begins or
\* after it has returned, and after an error the run converts nothing more.
C10_OneAtATime ==
    [][/\ Cardinality(open_files') <= 1
       /\ pc' \in {"main", "exit"} => open_files' = {}
       /\ (pc = "main" /\ pc' = "classify") =>
            /\ open_files = {}
            /\ err = "none"
            /\ open_files' = {<<datasets[d][1], ImName(args.imsize)>>}
       /\ (pc = "close" /\ pc' = "main") => (d' = d + 1 /\ open_files' = {})
       /\ (pc = "aborted" \/ err # "none") =>
            (run' = run + 1 /\ pc' = "main" /\ fs' = fs)]_vars

C10_Witness ==
    /\ Len(datasets) = 2
    /\ d = 2
    /\ pc = "frames"
    /\ open_files = {<<2, "trajectory_im128.h5">>}
    /\ <<1, "trajectory_im128.h5">> \in DOMAIN fs

====
